---------------------------- MODULE Spec2Model ----------------------------
(***************************************************************************)
(* A model of collect_changed_issues.py: the SonarQube triage pipeline.    *)
(*                                                                         *)
(* Python strings that the program inspects character by character (paths, *)
(* component identifiers, threshold tokens, issue keys) are sequences of   *)
(* one-character strings; severities, which the program only looks up in   *)
(* SEVERITY_ORDER, are TLA+ strings.  A dict is a function whose DOMAIN is *)
(* the set of keys that are present, so dict.get(k, d) is Get(d, k, dflt). *)
(***************************************************************************)
EXTENDS Integers, Sequences, FiniteSets, TLC

\* ------------------------------------------------------------------ bounds

\* Longest path string drawn as an input of normalize_path.
MaxPathLen == 4

\* Longest list of raw issues drawn as an input of filter_issues.
MaxIssues == 3

\* Most issues the upstream project holds in a whole run of main.
MaxDataset == 2

\* Largest number of issues of the upstream project in a run of fetch_issues
\* against an upstream that pages as asked.
MaxTotal == 1200

\* Requests are followed up to this page number.
MaxPage == 4

\* ----------------------------------------------------------- str helpers

\* Code points of the characters of the paths and issue keys the model
\* draws (Python compares str by code point).
Ord(c) ==
  CASE c = " "  -> 32
    [] c = "."  -> 46
    [] c = "/"  -> 47
    [] c = ":"  -> 58
    [] c = "\\" -> 92
    [] c = "a"  -> 97
    [] c = "b"  -> 98
    [] c = "c"  -> 99
    [] c = "p"  -> 112

\* str.__lt__: lexicographic order by code point.
RECURSIVE StrLess(_, _)
StrLess(s, t) ==
  IF t = <<>> THEN FALSE
  ELSE IF s = <<>> THEN TRUE
  ELSE IF Head(s) = Head(t) THEN StrLess(Tail(s), Tail(t))
  ELSE Ord(Head(s)) < Ord(Head(t))

\* Whitespace as str.strip() sees it (the model's alphabet holds the space).
IsSpace(c) == c = " "

RECURSIVE LStrip(_)
LStrip(s) == IF s # <<>> /\ IsSpace(Head(s)) THEN LStrip(Tail(s)) ELSE s

RECURSIVE RStrip(_)
RStrip(s) ==
  IF s # <<>> /\ IsSpace(s[Len(s)]) THEN RStrip(SubSeq(s, 1, Len(s) - 1)) ELSE s

\* str.strip()
Strip(s) == RStrip(LStrip(s))

\* str.lower(), one character
LowerChar(c) ==
  CASE c = "A" -> "a"
    [] c = "G" -> "g"
    [] c = "H" -> "h"
    [] c = "I" -> "i"
    [] c = "L" -> "l"
    [] OTHER   -> c

\* str.lower()
Lower(s) == [i \in 1..Len(s) |-> LowerChar(s[i])]

\* s.startswith(p)
StartsWith(s, p) == Len(s) >= Len(p) /\ SubSeq(s, 1, Len(p)) = p

\* s.replace(old, new) for single characters
Replace(s, old, new) == [i \in 1..Len(s) |-> IF s[i] = old THEN new ELSE s[i]]

\* s.split(sep): the pieces between the occurrences of the character sep
RECURSIVE SplitFrom(_, _, _)
SplitFrom(s, sep, cur) ==
  IF s = <<>> THEN <<cur>>
  ELSE IF Head(s) = sep THEN <<cur>> \o SplitFrom(Tail(s), sep, <<>>)
  ELSE SplitFrom(Tail(s), sep, Append(cur, Head(s)))

Split(s, sep) == SplitFrom(s, sep, <<>>)

\* sep.join(parts)
RECURSIVE Join(_, _)
Join(parts, sep) ==
  IF parts = <<>> THEN <<>>
  ELSE IF Len(parts) = 1 THEN parts[1]
  ELSE parts[1] \o <<sep>> \o Join(Tail(parts), sep)

\* ------------------------------------------------------- os.path.normpath

\* The loop of posixpath.normpath over the components of the path.
RECURSIVE NormComps(_, _, _)
NormComps(comps, new_comps, initial_slashes) ==
  IF comps = <<>> THEN new_comps
  ELSE LET comp == Head(comps)
           rest == Tail(comps)
       IN  IF comp = <<>> \/ comp = <<".">>
             THEN NormComps(rest, new_comps, initial_slashes)
           ELSE IF \/ comp # <<".", ".">>
                   \/ (initial_slashes = 0 /\ new_comps = <<>>)
                   \/ (new_comps # <<>> /\ new_comps[Len(new_comps)] = <<".", ".">>)
             THEN NormComps(rest, Append(new_comps, comp), initial_slashes)
           ELSE IF new_comps # <<>>
             THEN NormComps(rest, SubSeq(new_comps, 1, Len(new_comps) - 1),
                            initial_slashes)
           ELSE NormComps(rest, new_comps, initial_slashes)

\* posixpath.normpath: what os.path.normpath does on the POSIX hosts the
\* script runs on.
normpath(path) ==
  IF path = <<>> THEN <<".">>
  ELSE LET initial_slashes ==
             IF ~StartsWith(path, <<"/">>) THEN 0
             ELSE IF StartsWith(path, <<"/", "/">>)
                     /\ ~StartsWith(path, <<"/", "/", "/">>) THEN 2
             ELSE 1
           joined == Join(NormComps(Split(path, "/"), <<>>, initial_slashes), "/")
           out == [i \in 1..initial_slashes |-> "/"] \o joined
       IN  IF out = <<>> THEN <<".">> ELSE out

normalize_path(p) ==
  LET stripped == Strip(p)
      cut == IF StartsWith(stripped, <<".", "/">>)
               THEN SubSeq(stripped, 3, Len(stripped))
               ELSE stripped
  IN  Replace(normpath(cut), "\\", "/")

\* ------------------------------------------------------------ the tables

\* Python's "" and [] (both empty sequences here).
Empty == <<>>

\* dict.get(k, dflt)
Get(d, k, dflt) == IF k \in DOMAIN d THEN d[k] ELSE dflt

SEVERITY_ORDER ==
  [s \in {"INFO", "MINOR", "MAJOR", "CRITICAL", "BLOCKER"} |->
     CASE s = "INFO"     -> 1
       [] s = "MINOR"    -> 2
       [] s = "MAJOR"    -> 3
       [] s = "CRITICAL" -> 4
       [] s = "BLOCKER"  -> 5]

THRESHOLD_TO_SEVERITY ==
  (<<"i", "n", "f", "o">> :> "INFO")
  @@ (<<"l", "o", "w">> :> "MINOR")
  @@ (<<"m", "e", "d", "i", "u", "m">> :> "MAJOR")
  @@ (<<"h", "i", "g", "h">> :> "CRITICAL")
  @@ (<<"b", "l", "o", "c", "k", "e", "r">> :> "BLOCKER")
  @@ (<<"m", "i", "n", "o", "r">> :> "MINOR")
  @@ (<<"m", "a", "j", "o", "r">> :> "MAJOR")
  @@ (<<"c", "r", "i", "t", "i", "c", "a", "l">> :> "CRITICAL")
  @@ (<<"a", "l", "l">> :> "INFO")

\* ----------------------------------------------------------- the filter

issue_file_path(issue) ==
  LET component == Get(issue, "component", Empty)
      pieces == Split(component, ":")
  IN  IF Len(pieces) > 1
        THEN normalize_path(SubSeq(component, Len(pieces[1]) + 2, Len(component)))
        ELSE normalize_path(component)

issue_line(issue) ==
  LET text_range == Get(issue, "textRange", <<>>)
  IN  IF "line" \in DOMAIN issue /\ issue.line > 0 THEN issue.line
      ELSE IF "startLine" \in DOMAIN text_range /\ text_range.startLine > 0
        THEN text_range.startLine
      ELSE 0

\* The dict filter_issues appends for a kept issue.
Finding(issue) ==
  [key      |-> Get(issue, "key", Empty),
   rule     |-> Get(issue, "rule", Empty),
   type     |-> Get(issue, "type", Empty),
   severity |-> Get(issue, "severity", "INFO"),
   message  |-> Get(issue, "message", Empty),
   file     |-> issue_file_path(issue),
   line     |-> issue_line(issue),
   status   |-> Get(issue, "status", Empty),
   effort   |-> Get(issue, "effort", Empty),
   tags     |-> Get(issue, "tags", Empty)]

\* Keeps with the rank test off by one: an issue at the threshold is dropped.
Keeps_StrictRank(issue, changed, threshold_rank) ==
  LET rank == Get(SEVERITY_ORDER, Get(issue, "severity", "INFO"), 0)
  IN  ~(rank <= threshold_rank) /\ ~(issue_file_path(issue) \notin changed)

\* Keeps with an unknown severity ranked as INFO.
Keeps_UnknownAsInfo(issue, changed, threshold_rank) ==
  LET rank == Get(SEVERITY_ORDER, Get(issue, "severity", "INFO"), 1)
  IN  ~(rank < threshold_rank) /\ ~(issue_file_path(issue) \notin changed)

\* The test of the loop of filter_issues: neither `continue` is taken.
Keeps(issue, changed, threshold_rank) ==
  LET rank == Get(SEVERITY_ORDER, Get(issue, "severity", "INFO"), 0)
  IN  ~(rank < threshold_rank) /\ ~(issue_file_path(issue) \notin changed)

\* SortKeyLess without the issue key as the last component.
SortKeyLess_NoKey(f, g) ==
  LET fr == 0 - Get(SEVERITY_ORDER, f.severity, 0)
      gr == 0 - Get(SEVERITY_ORDER, g.severity, 0)
  IN  \/ fr < gr
      \/ fr = gr /\ StrLess(f.file, g.file)
      \/ fr = gr /\ f.file = g.file /\ f.line < g.line

\* The sort key of findings.sort, compared as Python compares tuples.
SortKeyLess(f, g) ==
  LET fr == 0 - Get(SEVERITY_ORDER, f.severity, 0)
      gr == 0 - Get(SEVERITY_ORDER, g.severity, 0)
  IN  \/ fr < gr
      \/ fr = gr /\ StrLess(f.file, g.file)
      \/ fr = gr /\ f.file = g.file /\ f.line < g.line
      \/ fr = gr /\ f.file = g.file /\ f.line = g.line /\ StrLess(f.key, g.key)

\* list.sort is stable: x goes before the first element whose key is greater.
RECURSIVE InsertSorted(_, _)
InsertSorted(sorted, x) ==
  IF sorted = <<>> THEN <<x>>
  ELSE IF SortKeyLess(x, Head(sorted)) THEN <<x>> \o sorted
  ELSE <<Head(sorted)>> \o InsertSorted(Tail(sorted), x)

RECURSIVE SortFindings(_)
SortFindings(fs) ==
  IF fs = <<>> THEN <<>>
  ELSE InsertSorted(SortFindings(SubSeq(fs, 1, Len(fs) - 1)), fs[Len(fs)])

RECURSIVE KeptFindings(_, _, _)
KeptFindings(raw, changed, threshold_rank) ==
  IF raw = <<>> THEN <<>>
  ELSE (IF Keeps(Head(raw), changed, threshold_rank)
          THEN <<Finding(Head(raw))>> ELSE <<>>)
       \o KeptFindings(Tail(raw), changed, threshold_rank)

filter_issues(raw, changed, thr) ==
  LET threshold_sev == THRESHOLD_TO_SEVERITY[thr]
      threshold_rank == SEVERITY_ORDER[threshold_sev]
  IN  SortFindings(KeptFindings(raw, changed, threshold_rank))

\* ------------------------------------------------------------- the state

VARIABLES
  pc,                 \* where main stands
  severity_threshold, \* args.severity_threshold
  list_file,          \* the changed-file list: Readable(lines) or Unreadable
  dataset,            \* the issues the upstream project holds
  upstream_honest,    \* the upstream pages as asked: ps=500, the true total
  threshold,          \* main: threshold
  changed_files,      \* main: changed_files
  page,               \* fetch_issues: page
  issues,             \* fetch_issues: issues
  raw_issues,         \* main: raw_issues
  findings,           \* main: findings
  io,                 \* what the run did to the outside, in order
  output_json,        \* the structured report: Unwritten or Written(..)
  output_md,          \* the narrative report: Unwritten or Written(..)
  error,              \* the exception that ended the run, or NoError
  exit_status,        \* Running, or Exited(status)
  path,               \* an argument of normalize_path
  normalized          \* normalize_path applied to path once, twice

vars == <<pc, severity_threshold, list_file, dataset, upstream_honest,
          threshold, changed_files, page, issues, raw_issues, findings, io,
          output_json, output_md, error, exit_status, path, normalized>>

\* A file that cannot be opened; one that opens holds its lines.
Unreadable == [readable |-> FALSE]
Readable(lines) == [readable |-> TRUE, lines |-> lines]

\* An output file holds nothing until it is written, then what was written.
Unwritten == <<>>
Written(content) == <<content>>

NoError == "none"

\* The exit status: none while the process runs, then the one it ended with.
Running == <<>>
Exited(status) == <<status>>

\* ps of the request, and the default of paging.get("pageSize", 500).
PageSize == 500

Min(a, b) == IF a < b THEN a ELSE b

\* All sequences over S of length at most n.
SeqsUpTo(S, n) == UNION {[1..k -> S] : k \in 0..n}

\* ------------------------------------------------------------ the inputs

\* Threshold tokens: every key of the alias table, keys in other case and
\* with surrounding blanks, and tokens that are no key.
Tokens ==
  DOMAIN THRESHOLD_TO_SEVERITY
  \cup {<<" ", "H", "i", "g", "h", " ">>, <<"A", "L", "L">>,
        <<"u", "r", "g", "e", "n", "t">>, <<>>, <<"h", "i", " ", "g", "h">>}

\* Changed-file lists: one that cannot be read, an empty one, and lists with
\* a blank line and a line that normalization changes.
ListFiles ==
  {Unreadable, Readable(<<>>), Readable(<<<<"a">>>>),
   Readable(<<<<" ", ".", "/", "b", " ">>, <<" ">>, <<"a">>>>)}

\* Raw issues as the upstream serves them; a key that is absent from the
\* record is absent from the JSON object.
Issue(key, severity, component, line) ==
  [key |-> key, severity |-> severity, component |-> component, line |-> line,
   rule |-> <<"r">>]

IssuePool ==
  { Issue(<<"a">>, "MAJOR", <<"p", ":", "a">>, 2),
    Issue(<<"b">>, "MAJOR", <<"p", ":", "a">>, 2),
    [key |-> <<"a">>, severity |-> "MAJOR", component |-> <<"p", ":", "a">>,
     textRange |-> [startLine |-> 1]],
    [key |-> <<"b">>, severity |-> "BLOCKER",
     component |-> <<"p", ":", ".", "/", "b">>, line |-> 0,
     textRange |-> [startLine |-> 3]],
    [key |-> <<"a">>, component |-> <<"p", ":", "a">>],
    Issue(<<"b">>, "INFO", <<"b">>, 5),
    Issue(<<"a">>, "CRITICAL", <<"p", ":", "c">>, 1),
    Issue(<<"b">>, "major", <<"p", ":", "a">>, 2),
    [severity |-> "CRITICAL", component |-> <<"p", ":", "b">>, line |-> 2,
     textRange |-> [startLine |-> 1]],
    [key |-> <<"a">>, severity |-> "BLOCKER", line |-> 1] }

\* The issues of the upstream project in a run of main.
ServerPool ==
  { Issue(<<"a">>, "MAJOR", <<"p", ":", "a">>, 2),
    Issue(<<"b">>, "BLOCKER", <<"p", ":", ".", "/", "b">>, 1),
    [key |-> <<"a">>, component |-> <<"p", ":", "a">>] }

\* Characters of the paths normalize_path is applied to.
PathChars == {"a", ".", "/", "\\", " "}

\* -------------------------------------------------------------- upstream

\* Page `p` of `data` cut into pages of `size`.
PageSlice(data, p, size) == SubSeq(data, (p - 1) * size + 1, Min(p * size, Len(data)))

\* The JSON bodies a successful response to the request for page p may hold.
\* An honest upstream serves the page asked for and reports the true total;
\* any other may cap the page size, report another total or page size, or
\* leave the paging block or its fields out.
Payloads(p) ==
  IF upstream_honest
    THEN { [issues |-> PageSlice(dataset, p, PageSize),
            paging |-> [total |-> Len(dataset), pageSize |-> PageSize]] }
    ELSE LET served == {PageSlice(dataset, p, size) : size \in {0, 1, PageSize}}
             pagings == {[total |-> t, pageSize |-> size] :
                           t \in {0, Len(dataset), Len(dataset) + 1},
                           size \in {0, 1, PageSize}}
                        \cup {[total |-> Len(dataset)], <<>>}
         IN  {[issues |-> i, paging |-> g] : i \in served, g \in pagings}
             \cup {[issues |-> i] : i \in served}
             \cup {[paging |-> g] : g \in pagings}

\* ------------------------------------------------------------------ main

Event(op, p) == [op |-> op, page |-> p]

\* The exit status taken from the findings alone.
ExitOf_FindingsOnly(err, found) == IF found # <<>> THEN 3 ELSE 0

\* The exit status of the process: main's return value through SystemExit,
\* 1 from the handler of RuntimeError, and 1 from the interpreter for an
\* exception nothing catches.
ExitOf(err, found) == IF err # NoError THEN 1 ELSE IF found # <<>> THEN 3 ELSE 0

\* An exception leaves main: nothing more is done, the process exits.
Raise(err) ==
  /\ error' = err
  /\ pc' = "exit"
  /\ exit_status' = Exited(ExitOf(err, findings))

\* ThresholdValid without the membership test.
ThresholdValid_Unchecked ==
  /\ pc = "main"
  /\ threshold' = Strip(Lower(severity_threshold))
  /\ pc' = "load"
  /\ UNCHANGED <<severity_threshold, list_file, dataset, upstream_honest,
                 changed_files, page, issues, raw_issues, findings, io,
                 output_json, output_md, error, exit_status, path, normalized>>

\* main, lines 214-220: the threshold is a key of the alias table.
ThresholdValid ==
  /\ pc = "main"
  /\ Strip(Lower(severity_threshold)) \in DOMAIN THRESHOLD_TO_SEVERITY
  /\ threshold' = Strip(Lower(severity_threshold))
  /\ pc' = "load"
  /\ UNCHANGED <<severity_threshold, list_file, dataset, upstream_honest,
                 changed_files, page, issues, raw_issues, findings, io,
                 output_json, output_md, error, exit_status, path, normalized>>

\* main, lines 214-220: the threshold is no key, RuntimeError.
ThresholdInvalid ==
  /\ pc = "main"
  /\ Strip(Lower(severity_threshold)) \notin DOMAIN THRESHOLD_TO_SEVERITY
  /\ threshold' = Strip(Lower(severity_threshold))
  /\ Raise("RuntimeError")
  /\ UNCHANGED <<severity_threshold, list_file, dataset, upstream_honest,
                 changed_files, page, issues, raw_issues, findings, io,
                 output_json, output_md, path, normalized>>

\* load_changed_files
load_changed_files(lines) ==
  {normalize_path(Strip(lines[i])) : i \in {j \in 1..Len(lines) : Strip(lines[j]) # <<>>}}

\* main, lines 222-223, and fetch_issues, lines 95-96.
LoadChangedFiles ==
  /\ pc = "load"
  /\ list_file # Unreadable
  /\ io' = Append(io, Event("open_changed_files", 0))
  /\ changed_files' = load_changed_files(list_file.lines)
  /\ page' = 1
  /\ issues' = <<>>
  /\ pc' = "request"
  /\ UNCHANGED <<severity_threshold, list_file, dataset, upstream_honest,
                 threshold, raw_issues, findings, output_json, output_md,
                 error, exit_status, path, normalized>>

\* main, line 222: open() raises OSError, which nothing catches.
LoadChangedFilesFails ==
  /\ pc = "load"
  /\ list_file = Unreadable
  /\ io' = Append(io, Event("open_changed_files", 0))
  /\ Raise("OSError")
  /\ UNCHANGED <<severity_threshold, list_file, dataset, upstream_honest,
                 threshold, changed_files, page, issues, raw_issues, findings,
                 output_json, output_md, path, normalized>>

\* fetch_issues, lines 99-111: the request for `page` is sent.
SendRequest ==
  /\ pc = "request"
  /\ page <= MaxPage
  /\ io' = Append(io, Event("request", page))
  /\ pc' = "response"
  /\ UNCHANGED <<severity_threshold, list_file, dataset, upstream_honest,
                 threshold, changed_files, page, issues, raw_issues, findings,
                 output_json, output_md, error, exit_status, path, normalized>>

\* The stop test with > for >=.
LastPage_Strict(p, page_size, total) == p * page_size > total

\* fetch_issues, line 125: the stop test on the response just received.
LastPage(p, page_size, total) == p * page_size >= total

\* The page counter left as it is.
NextPage_Same(p) == p

\* fetch_issues, line 127
NextPage(p) == p + 1

\* fetch_issues, lines 112 and 119-129: a successful response is consumed.
ReceivePage ==
  /\ pc = "response"
  /\ \E payload \in Payloads(page) :
       LET page_issues == Get(payload, "issues", <<>>)
           all == issues \o page_issues
           paging == Get(payload, "paging", <<>>)
           total == Get(paging, "total", Len(all))
           page_size == Get(paging, "pageSize", PageSize)
       IN  /\ issues' = all
           /\ io' = Append(io, Event("response", page))
           /\ IF LastPage(page, page_size, total)
                THEN /\ raw_issues' = all
                     /\ pc' = "filter"
                     /\ page' = page
                ELSE /\ page' = NextPage(page)
                     /\ pc' = "request"
                     /\ raw_issues' = raw_issues
  /\ UNCHANGED <<severity_threshold, list_file, dataset, upstream_honest,
                 threshold, changed_files, findings, output_json, output_md,
                 error, exit_status, path, normalized>>

\* RequestFails with the failure swallowed: the pages read so far are
\* returned.
RequestFails_Partial ==
  /\ pc = "response"
  /\ io' = Append(io, Event("request_failed", page))
  /\ raw_issues' = issues
  /\ pc' = "filter"
  /\ UNCHANGED <<severity_threshold, list_file, dataset, upstream_honest,
                 threshold, changed_files, page, issues, findings,
                 output_json, output_md, error, exit_status, path, normalized>>

\* fetch_issues, lines 113-117: HTTPError or URLError becomes RuntimeError;
\* lines 111-112: a timeout while the response is read, or a body that is
\* no JSON, raises an exception nothing catches.
RequestFails ==
  /\ pc = "response"
  /\ io' = Append(io, Event("request_failed", page))
  /\ \E err \in {"RuntimeError", "TimeoutError", "ValueError"} : Raise(err)
  /\ UNCHANGED <<severity_threshold, list_file, dataset, upstream_honest,
                 threshold, changed_files, page, issues, raw_issues, findings,
                 output_json, output_md, path, normalized>>

\* main, line 226
Filter ==
  /\ pc = "filter"
  /\ findings' = filter_issues(raw_issues, changed_files, threshold)
  /\ pc' = "write_json"
  /\ UNCHANGED <<severity_threshold, list_file, dataset, upstream_honest,
                 threshold, changed_files, page, issues, raw_issues, io,
                 output_json, output_md, error, exit_status, path, normalized>>

\* Counter(item["severity"] for item in findings), as dict(sorted(...)).
severity_counts(fs) ==
  [s \in {fs[i].severity : i \in 1..Len(fs)} |->
     Cardinality({i \in 1..Len(fs) : fs[i].severity = s})]

\* main, lines 228-245: the structured report is written.
WriteJson ==
  /\ pc = "write_json"
  /\ io' = Append(io, Event("write_json", 0))
  /\ output_json' =
       Written([summary |-> [severity_threshold |-> threshold,
                             changed_files |-> Cardinality(changed_files),
                             findings |-> Len(findings),
                             severity_counts |-> severity_counts(findings)],
                findings |-> findings])
  /\ pc' = "write_md"
  /\ UNCHANGED <<severity_threshold, list_file, dataset, upstream_honest,
                 threshold, changed_files, page, issues, raw_issues, findings,
                 output_md, error, exit_status, path, normalized>>

\* write_markdown: the header, then the table or the "No findings" line.
write_markdown(thr, changed_count, fs) ==
  [severity_threshold |-> thr, changed_files |-> changed_count,
   findings |-> Len(fs),
   no_findings_line |-> fs = <<>>,
   rows |-> [i \in 1..Len(fs) |->
               <<fs[i].severity, fs[i].file, fs[i].line, fs[i].rule,
                 fs[i].message>>]]

\* main, lines 247-255: the narrative report is written, main returns.
WriteMarkdown ==
  /\ pc = "write_md"
  /\ io' = Append(io, Event("write_md", 0))
  /\ output_md' = Written(write_markdown(threshold, Cardinality(changed_files),
                                       findings))
  /\ pc' = "exit"
  /\ exit_status' = Exited(ExitOf(error, findings))
  /\ UNCHANGED <<severity_threshold, list_file, dataset, upstream_honest,
                 threshold, changed_files, page, issues, raw_issues, findings,
                 output_json, error, path, normalized>>

\* main, lines 240-253: makedirs or open raises OSError, which nothing
\* catches; the file is not written.
WriteFails ==
  /\ pc \in {"write_json", "write_md"}
  /\ io' = Append(io, Event("write_failed", 0))
  /\ Raise("OSError")
  /\ UNCHANGED <<severity_threshold, list_file, dataset, upstream_honest,
                 threshold, changed_files, page, issues, raw_issues, findings,
                 output_json, output_md, path, normalized>>

\* One application of normalize_path: to path, then to its own result.
Normalize ==
  /\ pc = "normalize"
  /\ Len(normalized) < 2
  /\ normalized' = Append(normalized,
                          normalize_path(IF normalized = <<>> THEN path
                                         ELSE normalized[Len(normalized)]))
  /\ UNCHANGED <<pc, severity_threshold, list_file, dataset, upstream_honest,
                 threshold, changed_files, page, issues, raw_issues, findings,
                 io, output_json, output_md, error, exit_status, path>>

\* -------------------------------------------------------- specifications

Idle ==
  /\ threshold = <<>>
  /\ changed_files = {}
  /\ page = 1
  /\ issues = <<>>
  /\ raw_issues = <<>>
  /\ findings = <<>>
  /\ io = <<>>
  /\ output_json = Unwritten
  /\ output_md = Unwritten
  /\ error = NoError
  /\ exit_status = Running

\* A run of the script, from main's first line.
Init ==
  /\ pc = "main"
  /\ severity_threshold \in Tokens
  /\ list_file \in ListFiles
  /\ dataset \in SeqsUpTo(ServerPool, MaxDataset)
  /\ upstream_honest = FALSE
  /\ Idle
  /\ path = <<>>
  /\ normalized = <<>>

Next ==
  \/ ThresholdValid
  \/ ThresholdInvalid
  \/ LoadChangedFiles
  \/ LoadChangedFilesFails
  \/ SendRequest
  \/ ReceivePage
  \/ RequestFails
  \/ Filter
  \/ WriteJson
  \/ WriteMarkdown
  \/ WriteFails

Spec == Init /\ [][Next]_vars

\* A call of fetch_issues against an upstream that pages as asked.
FetchInit ==
  /\ pc = "request"
  /\ severity_threshold = <<"a", "l", "l">>
  /\ list_file = Readable(<<>>)
  /\ dataset \in {[i \in 1..n |-> i] : n \in 0..MaxTotal}
  /\ upstream_honest = TRUE
  /\ Idle
  /\ path = <<>>
  /\ normalized = <<>>

FetchNext == SendRequest \/ ReceivePage \/ RequestFails

FetchSpec == FetchInit /\ [][FetchNext]_vars

\* A call of filter_issues.
FilterInit ==
  /\ pc = "filter"
  /\ severity_threshold = <<>>
  /\ list_file = Readable(<<>>)
  /\ dataset = <<>>
  /\ upstream_honest = TRUE
  /\ threshold \in DOMAIN THRESHOLD_TO_SEVERITY
  /\ changed_files \in {load_changed_files(f.lines) : f \in ListFiles \ {Unreadable}}
                       \cup {{<<".">>, <<"a">>}}
  /\ raw_issues \in SeqsUpTo(IssuePool, MaxIssues)
  /\ page = 1
  /\ issues = <<>>
  /\ findings = <<>>
  /\ io = <<>>
  /\ output_json = Unwritten
  /\ output_md = Unwritten
  /\ error = NoError
  /\ exit_status = Running
  /\ path = <<>>
  /\ normalized = <<>>

FilterNext == Filter

FilterSpec == FilterInit /\ [][FilterNext]_vars

\* Calls of normalize_path.
NormInit ==
  /\ pc = "normalize"
  /\ severity_threshold = <<>>
  /\ list_file = Readable(<<>>)
  /\ dataset = <<>>
  /\ upstream_honest = TRUE
  /\ Idle
  /\ path \in SeqsUpTo(PathChars, MaxPathLen)
  /\ normalized = <<>>

NormNext == Normalize

NormSpec == NormInit /\ [][NormNext]_vars

\* ------------------------------------------------------------ properties

Max(a, b) == IF a > b THEN a ELSE b

\* rankOf of the severity policy: 0 for a severity outside the enumeration.
RankOf(severity) ==
  CASE severity = "INFO"     -> 1
    [] severity = "MINOR"    -> 2
    [] severity = "MAJOR"    -> 3
    [] severity = "CRITICAL" -> 4
    [] severity = "BLOCKER"  -> 5
    [] OTHER                 -> 0

\* The rank a threshold token stands for.
ThresholdRank(token) == RankOf(THRESHOLD_TO_SEVERITY[token])

\* The severity a raw issue is compared by.
SeverityOf(issue) == IF "severity" \in DOMAIN issue THEN issue.severity ELSE "INFO"

\* The two predicates of the filter, on a raw issue.
Eligible(issue) ==
  /\ RankOf(SeverityOf(issue)) >= ThresholdRank(threshold)
  /\ issue_file_path(issue) \in changed_files

Occurrences(seq, x) == Cardinality({i \in 1..Len(seq) : seq[i] = x})

Filtered == pc = "write_json"

\* C1: after filter_issues, every finding has a rank at or above the
\* threshold's and a file of the changed-file set, and the findings are, as a
\* multiset, the eligible raw issues: each eligible raw issue appears exactly
\* once, no other raw issue appears.
C1_KeepsExactlyEligible ==
  Filtered =>
    /\ \A i \in 1..Len(findings) :
         /\ RankOf(findings[i].severity) >= ThresholdRank(threshold)
         /\ findings[i].file \in changed_files
    /\ Len(findings) = Cardinality({i \in 1..Len(raw_issues) : Eligible(raw_issues[i])})
    /\ \A i \in 1..Len(raw_issues) :
         Occurrences(findings, Finding(raw_issues[i]))
           = Cardinality({j \in 1..Len(raw_issues) :
                            /\ Eligible(raw_issues[j])
                            /\ Finding(raw_issues[j]) = Finding(raw_issues[i])})

\* C1's case: raw issues of which one is kept, one fails the rank test and
\* one fails the file test.
C1_Witness ==
  /\ Filtered
  /\ findings # <<>>
  /\ \E i, j \in 1..Len(raw_issues) :
       /\ RankOf(SeverityOf(raw_issues[i])) < ThresholdRank(threshold)
       /\ issue_file_path(raw_issues[i]) \in changed_files
       /\ RankOf(SeverityOf(raw_issues[j])) >= ThresholdRank(threshold)
       /\ issue_file_path(raw_issues[j]) \notin changed_files

\* The key the findings are ordered by, and the order of two such keys.
OrderKey(f) == <<0 - RankOf(f.severity), f.file, f.line, f.key>>

StrLeq(s, t) == s = t \/ StrLess(s, t)

OrderKeyLeq(k, l) ==
  \/ k[1] < l[1]
  \/ k[1] = l[1] /\ k[2] # l[2] /\ StrLess(k[2], l[2])
  \/ k[1] = l[1] /\ k[2] = l[2] /\ k[3] < l[3]
  \/ k[1] = l[1] /\ k[2] = l[2] /\ k[3] = l[3] /\ StrLeq(k[4], l[4])

\* C6: the findings are ordered by (rank descending, file, line, key): each
\* finding's key is at most its successor's, and of two findings that agree
\* on severity, file and line the one with the smaller key comes first.
C6_SortedByKey ==
  Filtered =>
    /\ \A i \in 1..(Len(findings) - 1) :
         OrderKeyLeq(OrderKey(findings[i]), OrderKey(findings[i + 1]))
    /\ \A i, j \in 1..Len(findings) :
         (/\ findings[i].severity = findings[j].severity
          /\ findings[i].file = findings[j].file
          /\ findings[i].line = findings[j].line
          /\ StrLess(findings[i].key, findings[j].key)) => i < j

\* C6's case: two kept issues that agree on severity, file and line arrive
\* with the greater key first, and a third finding of another severity.
C6_Witness ==
  /\ Filtered
  /\ Len(findings) >= 3
  /\ \E i, j \in 1..Len(raw_issues) :
       /\ i < j
       /\ Eligible(raw_issues[i]) /\ Eligible(raw_issues[j])
       /\ SeverityOf(raw_issues[i]) = SeverityOf(raw_issues[j])
       /\ issue_file_path(raw_issues[i]) = issue_file_path(raw_issues[j])
       /\ issue_line(raw_issues[i]) = issue_line(raw_issues[j])
       /\ StrLess(raw_issues[j].key, raw_issues[i].key)
  /\ \E i, j \in 1..Len(findings) : findings[i].severity # findings[j].severity

Severities == {"INFO", "MINOR", "MAJOR", "CRITICAL", "BLOCKER"}

\* C9: a raw issue whose severity is present and outside the enumeration is
\* in no findings list, whatever the threshold; one with no severity is a
\* finding of severity INFO exactly when its file is changed and the threshold
\* resolves to INFO.
C9_UnknownAndMissingSeverity ==
  Filtered =>
    /\ \A i \in 1..Len(findings) : findings[i].severity \in Severities
    /\ \A i \in 1..Len(raw_issues) :
         ("severity" \in DOMAIN raw_issues[i] /\ raw_issues[i].severity \notin Severities)
           => Occurrences(findings, Finding(raw_issues[i])) = 0
    /\ \A i \in 1..Len(raw_issues) :
         "severity" \notin DOMAIN raw_issues[i] =>
           /\ Finding(raw_issues[i]).severity = "INFO"
           /\ Occurrences(findings, Finding(raw_issues[i])) > 0
                <=> (/\ issue_file_path(raw_issues[i]) \in changed_files
                     /\ THRESHOLD_TO_SEVERITY[threshold] = "INFO")

\* C9's case: under the token "all", an issue of an unknown severity on a
\* changed file is dropped and one with no severity on a changed file is kept.
C9_Witness ==
  /\ Filtered
  /\ threshold = <<"a", "l", "l">>
  /\ \E i, j \in 1..Len(raw_issues) :
       /\ "severity" \in DOMAIN raw_issues[i]
       /\ raw_issues[i].severity \notin Severities
       /\ issue_file_path(raw_issues[i]) \in changed_files
       /\ "severity" \notin DOMAIN raw_issues[j]
       /\ Occurrences(findings, Finding(raw_issues[j])) > 0
  /\ Len(findings) < Len(raw_issues)

Exit == pc = "exit"

\* The run got through threshold validation, the changed-file list, every
\* page, the filter and both reports.
Succeeded ==
  /\ error = NoError
  /\ output_json # Unwritten
  /\ output_md # Unwritten

IsAlias(token) == Lower(Strip(token)) \in DOMAIN THRESHOLD_TO_SEVERITY

\* C3: a token that is no key of the alias table ends the run with status 1
\* before the changed-file list is opened, a request is sent or a report is
\* written; a token that is a key resolves to that key, which stands for one
\* severity of the enumeration.
C3_InvalidThresholdFirst ==
  /\ ~IsAlias(severity_threshold) =>
       /\ io = <<>>
       /\ output_json = Unwritten /\ output_md = Unwritten
       /\ pc \in {"main", "exit"}
       /\ Exit => (exit_status = Exited(1) /\ error = "RuntimeError")
  /\ (IsAlias(severity_threshold) /\ pc # "main") =>
       /\ threshold = Lower(Strip(severity_threshold))
       /\ ThresholdRank(threshold) \in 1..5

\* C3's case: the token "urgent" has been rejected.
C3_Witness ==
  /\ severity_threshold = <<"u", "r", "g", "e", "n", "t">>
  /\ Exit
  /\ exit_status = Exited(1)

IsFetchEvent(e) == e.op \in {"request", "response", "request_failed"}

FetchEvents == SelectSeq(io, IsFetchEvent)

IsRequest(e) == e.op = "request"

\* The page numbers of the requests sent, in order.
Requests == [i \in 1..Len(SelectSeq(io, IsRequest)) |-> SelectSeq(io, IsRequest)[i].page]

Did(op) == \E i \in 1..Len(io) : io[i].op = op

\* C5: a report is written only after the threshold was accepted, the
\* changed-file list was loaded, every request was answered and the last
\* answer ended the fetch, and the findings were computed; after a failed
\* request no report is written and no findings exist.
C5_NoOutputUnlessSucceeded ==
  /\ (output_json # Unwritten \/ output_md # Unwritten) =>
       /\ IsAlias(severity_threshold)
       /\ Did("open_changed_files") /\ list_file # Unreadable
       /\ ~Did("request_failed")
       /\ FetchEvents # <<>>
       /\ FetchEvents[Len(FetchEvents)].op = "response"
       /\ raw_issues = issues
       /\ findings = filter_issues(raw_issues, changed_files, threshold)
       /\ pc \in {"write_md", "exit"}
       /\ output_json # Unwritten
  /\ Did("request_failed") =>
       /\ output_json = Unwritten /\ output_md = Unwritten
       /\ findings = <<>>
       /\ ~Did("write_json") /\ ~Did("write_md")

\* C5's case: the request for a page after the first failed, with issues of
\* the earlier pages already accumulated.
C5_Witness ==
  /\ Exit
  /\ Did("request_failed")
  /\ page > 1
  /\ issues # <<>>
  /\ output_json = Unwritten /\ output_md = Unwritten

\* C8: the requests are for pages 1, 2, 3, ... in this order; a request is
\* followed by its own response or failure before anything else is sent; a
\* failed request is the last one.
C8_OneRequestAtATime ==
  /\ Requests = [i \in 1..Len(Requests) |-> i]
  /\ \A k \in 1..Len(FetchEvents) :
       IF k % 2 = 1
         THEN FetchEvents[k] = Event("request", (k + 1) \div 2)
         ELSE /\ FetchEvents[k] \in {Event("response", k \div 2),
                                     Event("request_failed", k \div 2)}
              /\ FetchEvents[k].op = "request_failed" => k = Len(FetchEvents)
  /\ pc = "response" <=> (Len(FetchEvents) % 2 = 1)
  /\ pc = "request" => page = Len(Requests) + 1

\* C8's case: three pages were requested and the third request failed.
C8_Witness ==
  /\ Len(Requests) = 3
  /\ Did("request_failed")
  /\ Exit

\* C10: the loop of fetch_issues is bounded. A loop whose stop test comes
\* true needs at most as many requests as the largest total a response
\* reports (one request at least); the upstream of a run of main reports
\* totals of at most the issues it holds plus one.
C10_FetchBounded == Len(Requests) <= Max(1, Len(dataset) + 1)

Returned == pc = "filter"

\* ceil(a / b)
CeilDiv(a, b) == (a + b - 1) \div b

\* C4: against an upstream that reports the total T and pageSize 500 with
\* every page and serves the matching slice, fetch_issues returns after
\* exactly max(1, ceil(T / 500)) requests, for pages 1, 2, ..., with all T
\* issues in page order.
C4_HonestPagination ==
  Returned =>
    /\ Len(Requests) = Max(1, CeilDiv(Len(dataset), 500))
    /\ Requests = [i \in 1..Len(Requests) |-> i]
    /\ raw_issues = dataset
    /\ ~Did("request_failed")

\* C4's case: total = 1200, 3 pages requested, 1200 issues accumulated.
C4_Witness ==
  /\ Returned
  /\ Len(dataset) = 1200
  /\ Requests = <<1, 2, 3>>
  /\ Len(raw_issues) = 1200

\* C7: normalize_path is idempotent, and "./a/b" and "a/b" both normalize to
\* "a/b".
C7_Idempotent ==
  /\ Len(normalized) = 2 => normalized[2] = normalized[1]
  /\ normalize_path(<<".", "/", "a", "/", "b">>) = <<"a", "/", "b">>
  /\ normalize_path(<<"a", "/", "b">>) = <<"a", "/", "b">>

=============================================================================
